---- MODULE Spec2Model ----
(***************************************************************************)
(* Model of the stem splitter: MusicProcessor (music_processor.py) and the *)
(* upload_song / get_results routes (app.py).                              *)
(*                                                                         *)
(* Numbers.  Gains are kept in hundredths (1.2 * 1.3 = 156), the target    *)
(* level in hundredths (0.95 = 95) and a waveform is a sequence of integer *)
(* samples over a common denominator, so that every product and quotient   *)
(* of the code is computed exactly.  A frame has four samples and four     *)
(* frequency bins; the bins stand at the indices BinK of the 1025 bins     *)
(* that librosa.fft_frequencies(sr=22050) yields for n_fft = 2048.         *)
(***************************************************************************)
EXTENDS Integers, Sequences, FiniteSets, TLC

\* ---------------------------------------------------------------- bounds
MaxMag == 1
MaxClick == 1
MaxLen == 3
MaxSample == 2

\* ------------------------------------------------------ program constants
\* librosa.load(audio_path, sr=22050)
SR == 22050
\* librosa.stft / librosa.fft_frequencies default n_fft
n_fft == 2048
\* _normalize_audio(self, audio, target_level=0.95), in hundredths
target_level == 95

None == "None"

\* The nine stems, in the order separate_audio_simple writes them.
StemNames ==
    << "vocals", "drums", "bass", "guitar", "piano",
       "flute", "strings", "background", "instrumental" >>

StemSet == { StemNames[i] : i \in 1..Len(StemNames) }

\* -------------------------------------------------------------- arithmetic
Abs(x) == IF x < 0 THEN -x ELSE x

RECURSIVE SumTo(_, _)
SumTo(f, n) == IF n = 0 THEN 0 ELSE f[n] + SumTo(f, n - 1)

RECURSIVE MaxAbsTo(_, _)
MaxAbsTo(f, n) ==
    IF n = 0 THEN 0
    ELSE LET m == MaxAbsTo(f, n - 1)
         IN  IF Abs(f[n]) > m THEN Abs(f[n]) ELSE m

RECURSIVE MaxTo(_, _)
MaxTo(f, n) ==
    IF n = 1 THEN f[1]
    ELSE LET m == MaxTo(f, n - 1)
         IN  IF f[n] > m THEN f[n] ELSE m

\* ------------------------------------------------------------ the bin grid
\* Probe bins: 10 (107.7 Hz), 41 (441.4 Hz, the bin a 440 Hz tone peaks in),
\* 326 (3509.9 Hz) and 500 (5383.3 Hz).
BinK == << 10, 41, 326, 500 >>

Bins == 1..Len(BinK)

Frame == 1..Len(BinK)

\* freqs = librosa.fft_frequencies(sr=sr): freqs[k] = k * sr / n_fft.
\* freqs[k] > hz and freqs[k] < hz, without the division.
FreqAbove(k, hz) == k * SR > hz * n_fft

FreqBelow(k, hz) == k * SR < hz * n_fft

AllBins == 0..(n_fft \div 2)

\* ------------------------------------------------------------------- masks
\* Each mask is the code's three steps at bin k: the initial array
\* (zeros_like / ones_like), the assignment to the primary band, and the
\* in-place multiplication of the sub-band.  Result in hundredths.
\* vocal_mask with the sub-band assigned (= 1.3) in place of multiplied (*= 1.3)
vocal_mask_assign(k) ==
    LET m0 == 0
        m1 == IF FreqAbove(k, 80) /\ FreqBelow(k, 4000) THEN 12 ELSE m0
    IN  IF FreqAbove(k, 150) /\ FreqBelow(k, 3000) THEN 13 * 10 ELSE m1 * 10

vocal_mask(k) ==
    LET m0 == 0
        m1 == IF FreqAbove(k, 80) /\ FreqBelow(k, 4000) THEN 12 ELSE m0
    IN  IF FreqAbove(k, 150) /\ FreqBelow(k, 3000) THEN m1 * 13 ELSE m1 * 10

\* drums_mask started from np.zeros_like in place of np.ones_like
drums_mask_zeros(k) ==
    LET m0 == 0
        m1 == IF FreqBelow(k, 50) THEN 3 ELSE m0
        m2 == IF FreqAbove(k, 5000) THEN 3 ELSE m1
    IN  m2 * 10

drums_mask(k) ==
    LET m0 == 10
        m1 == IF FreqBelow(k, 50) THEN 3 ELSE m0
        m2 == IF FreqAbove(k, 5000) THEN 3 ELSE m1
    IN  m2 * 10

\* bass_mask with the band drawn an octave too wide (freqs < 500)
bass_mask_wide(k) ==
    LET m0 == 0
        m1 == IF FreqAbove(k, 20) /\ FreqBelow(k, 500) THEN 18 ELSE m0
    IN  IF FreqAbove(k, 20) /\ FreqBelow(k, 100) THEN m1 * 12 ELSE m1 * 10

bass_mask(k) ==
    LET m0 == 0
        m1 == IF FreqAbove(k, 20) /\ FreqBelow(k, 250) THEN 18 ELSE m0
    IN  IF FreqAbove(k, 20) /\ FreqBelow(k, 100) THEN m1 * 12 ELSE m1 * 10

guitar_mask(k) ==
    LET m0 == 0
        m1 == IF FreqAbove(k, 80) /\ FreqBelow(k, 2000) THEN 14 ELSE m0
    IN  IF FreqAbove(k, 200) /\ FreqBelow(k, 1000) THEN m1 * 12 ELSE m1 * 10

piano_mask(k) ==
    LET m0 == 0
        m1 == IF FreqAbove(k, 27) /\ FreqBelow(k, 4200) THEN 8 ELSE m0
    IN  IF FreqAbove(k, 200) /\ FreqBelow(k, 2000) THEN m1 * 13 ELSE m1 * 10

flute_mask(k) ==
    LET m0 == 0
        m1 == IF FreqAbove(k, 250) /\ FreqBelow(k, 4200) THEN 9 ELSE m0
    IN  IF FreqAbove(k, 1000) /\ FreqBelow(k, 3500) THEN m1 * 14 ELSE m1 * 10

strings_mask(k) ==
    LET m0 == 0
        m1 == IF FreqAbove(k, 40) /\ FreqBelow(k, 3500) THEN 9 ELSE m0
    IN  IF FreqAbove(k, 150) /\ FreqBelow(k, 1500) THEN m1 * 13 ELSE m1 * 10

bg_mask(k) ==
    LET m0 == 0
        m1 == IF FreqAbove(k, 3000) THEN 12 ELSE m0
    IN  IF FreqAbove(k, 5000) THEN m1 * 11 ELSE m1 * 10

instr_mask(k) ==
    LET m0 == 10
    IN  IF FreqBelow(k, 100) THEN m0 * 5 ELSE m0 * 10

\* The mask the code builds in the section of each stem.
MaskOf(name, k) ==
    CASE name = "vocals"       -> vocal_mask(k)
      [] name = "drums"        -> drums_mask(k)
      [] name = "bass"         -> bass_mask(k)
      [] name = "guitar"       -> guitar_mask(k)
      [] name = "piano"        -> piano_mask(k)
      [] name = "flute"        -> flute_mask(k)
      [] name = "strings"      -> strings_mask(k)
      [] name = "background"   -> bg_mask(k)
      [] name = "instrumental" -> instr_mask(k)

\* -------------------------------------------------------------- transforms
\* A waveform: integer samples over the common denominator den.
Wave(s) == [samples |-> s, den |-> 1]

Silence == Wave([t \in Frame |-> 0])

\* The frame transform: the 4-point Walsh-Hadamard matrix (W . W = 4 I).
W ==
    << << 1,  1,  1,  1 >>,
       << 1, -1,  1, -1 >>,
       << 1,  1, -1, -1 >>,
       << 1, -1, -1,  1 >> >>

Dot(row, v) == SumTo([k \in Bins |-> row[k] * v[k]], Len(BinK))

\* librosa.istft(D): overlap-add synthesis of the frame from its coefficients.
istft(D) == Wave([t \in Frame |-> Dot(W[t], D)])

\* librosa.stft(y): analysis of the frame.  The windowed analysis of a partial
\* is not confined to its own bin: a bin picks up one unit of window leakage
\* as soon as any other bin holds energy.  An all-zero frame analyses to zero.
stft(wave) ==
    LET c == [k \in Bins |-> Dot(W[k], wave.samples) \div Len(BinK)]
    IN  [k \in Bins |->
            c[k] + (IF \E j \in Bins \ {k} : c[j] # 0 THEN 1 ELSE 0)]

\* librosa.magphase(D)[0]: the magnitudes.
magphase(D) == [k \in Bins |-> Abs(D[k])]

\* np.angle(D) of a real coefficient: 0, or pi when it is negative.
angle(D) == [k \in Bins |-> IF D[k] < 0 THEN "pi" ELSE "0"]

\* np.exp(1j * phase) of such a phase: 1 or -1.
expj(ph) == IF ph = "pi" THEN -1 ELSE 1

\* librosa.effects.hpss(y, margin=2.0): the sustained partials of the
\* recording make the harmonic waveform, its transients (a click has a flat
\* spectrum) the percussive one.
hpss(sig) ==
    << istft(sig.harm), istft([k \in Bins |-> sig.click]) >>

\* ----------------------------------------------------------- normalization
\* np.max(np.abs(audio)), as a numerator over audio.den
PeakNum(audio) == MaxAbsTo(audio.samples, Len(audio.samples))

\* audio * (target_level / max_val): sample s/den becomes
\* (s/den) * (target_level/100) / (peak/den) = s * target_level / (100 * peak).
Scaled(audio, level, peak) ==
    [samples |-> [i \in DOMAIN audio.samples |-> audio.samples[i] * level],
     den     |-> 100 * peak]

\* _normalize_audio taking np.max(audio), without np.abs
_normalize_audio_noabs(audio) ==
    LET max_val == MaxTo(audio.samples, Len(audio.samples))
    IN  IF max_val > 0
        THEN Scaled(audio, target_level, max_val)
        ELSE audio

\* _normalize_audio without the max_val > 0 guard
_normalize_audio_noguard(audio) ==
    Scaled(audio, target_level, PeakNum(audio))

_normalize_audio(audio) ==
    LET max_val == PeakNum(audio)
    IN  IF max_val > 0
        THEN Scaled(audio, target_level, max_val)
        ELSE audio

\* -------------------------------------------------------------- exceptions
Exc(kind, msg) == [kind |-> kind, msg |-> msg]

NoError == Exc("none", "")

\* an except clause that re-raises the exception it caught
separate_except_reraise(e) == e

\* except Exception as e: raise Exception(f"Audio processing failed: {str(e)}")
separate_except(e) == Exc("Exception", "Audio processing failed: " \o e.msg)

\* except Exception as e: raise Exception(f"Processing failed: {str(e)}")
process_except(e) == Exc("Exception", "Processing failed: " \o e.msg)

\* the duration check with <= in place of <
TooShort_le(n, rate) == 2 * n <= rate

\* duration = librosa.get_duration(y=y, sr=sr) = n / sr;  duration < 0.5
TooShort(n, rate) == 2 * n < rate

\* =================================================================== state
VARIABLES
    input,                  \* the uploaded recording (the file at audio_path)
    cloudinary_configured,  \* MusicProcessor.cloudinary_configured
    dirs,                   \* temporary directories that exist on disk
    files,                  \* stem files on disk: [dir, name, sr, audio]
    sep_pc,                 \* position inside separate_audio_simple
    y,                      \* the decoded signal
    sr,                     \* its sample rate (0 before load)
    temp_dir,               \* separate_audio_simple's temp_dir (0: unbound)
    output_files,           \* its output_files, in insertion order
    y_harmonic, y_percussive,
    S_harmonic, S_percussive,
    S_harmonic_phase, S_percussive_phase,
    sep_error,              \* the exception separate_audio_simple raised
    sep_done,               \* stages of separate_audio_simple that completed
    sep_cause,              \* the exception that entered its except clause
    pu_pc,                  \* position inside process_and_upload
    pu_temp_dir,            \* process_and_upload's temp_dir (0: None)
    stems,                  \* the stems mapping it received
    results,                \* its results['stems'], in insertion order
    total_stems,            \* its results['total_stems']
    pu_error,               \* the exception process_and_upload raised
    attempted,              \* stems whose upload iteration ran
    uploaded,               \* stems whose upload_to_cloudinary call returned
    us_pc,                  \* position inside upload_song
    request,                \* the request: [owned, has_file, filename]
    project,                \* the project document
    temp_audio_path,        \* whether the temporary input file exists
    response,               \* the response upload_song returned
    us_error,               \* the exception its inner except clause caught
    db_log,                 \* its status updates, in order: [status, ok]
    norm_in, norm_out,      \* argument and result of a _normalize_audio call
    mask_name, mask_k,      \* a stem and an index into freqs
    mask_gain,              \* the stem's mask at that index (-1: not built)
    call,                   \* the locals of each of two concurrent calls
    written                 \* which call wrote which stem path

sepVars ==
    << sep_pc, y, sr, temp_dir, output_files, y_harmonic, y_percussive,
       S_harmonic, S_percussive, S_harmonic_phase, S_percussive_phase,
       sep_error, sep_done, sep_cause >>

fsVars == << dirs, files >>

puVars ==
    << pu_pc, pu_temp_dir, stems, results, total_stems, pu_error,
       attempted, uploaded >>

usVars ==
    << us_pc, request, project, temp_audio_path, response, us_error, db_log >>

normVars == << norm_in, norm_out >>

maskVars == << mask_name, mask_k, mask_gain >>

\* The variables of the specifications that run one operation on its own.
parVars == << call, written >>

unitVars == << normVars, maskVars, parVars >>

envVars == << input, cloudinary_configured >>

vars == << envVars, fsVars, sepVars, puVars, usVars, unitVars >>

\* ------------------------------------------------------------------ inputs
ZeroSpec == [k \in Bins |-> 0]

\* Sustained partials of a recording: one amplitude per probe bin, in steps
\* of 8 units (the unit is the size of the analysis leakage).
Partials == { [k \in Bins |-> 8 * f[k]] : f \in [Bins -> (-MaxMag)..MaxMag] }

Clicks == { 8 * c : c \in 0..MaxClick }

\* Sample counts after resampling: none, one below half a second, exactly
\* half a second, two seconds.
ShortLengths == { 0, (SR \div 2) - 1 }

ValidLengths == { SR \div 2, 2 * SR }

Recording(n, h, c) == [corrupt |-> FALSE, n |-> n, harm |-> h, click |-> c]

\* A file with an audio extension and no audio inside.
CorruptFile == [corrupt |-> TRUE, n |-> 0, harm |-> ZeroSpec, click |-> 0]

AllInputs ==
    { CorruptFile, Recording(0, ZeroSpec, 0) }
    \cup { Recording(n, h, c) :
             n \in (ShortLengths \ {0}) \cup ValidLengths,
             h \in Partials, c \in Clicks }

\* A 440 Hz tone of amplitude a: one partial, in the bin 440 Hz peaks in.
Tone440(a) == [k \in Bins |-> IF BinK[k] = 41 THEN 8 * a ELSE 0]

\* ==================================================== separate_audio_simple
PercussiveStems == { "drums", "instrumental" }

\* The magnitude and the phase the section of stem `name` reads.
StemMagnitude(name) ==
    IF name \in PercussiveStems THEN S_percussive ELSE S_harmonic

\* every section reading S_harmonic_phase (the vocals section copied as is)
StemPhase_harmonic(name) == S_harmonic_phase

StemPhase(name) ==
    IF name \in PercussiveStems THEN S_percussive_phase ELSE S_harmonic_phase

\* S_x = S * mask[:, np.newaxis]; D_x = S_x * np.exp(1j * phase);
\* y_x = librosa.istft(D_x); y_x = self._normalize_audio(y_x)
\* (the mask is in hundredths, so the samples of y_x are hundredths)
Reconstruct(name, S, phase) ==
    LET S_x == [k \in Bins |-> S[k] * MaskOf(name, BinK[k])]
        D_x == [k \in Bins |-> S_x[k] * expj(phase[k])]
        y_x == [istft(D_x) EXCEPT !.den = 100]
    IN  _normalize_audio(y_x)

Synthesize(name) == Reconstruct(name, StemMagnitude(name), StemPhase(name))

\* os.path.join(temp_dir, name + '.wav')
PathOf(dir, name) == << dir, name >>

\* sf.write with the rate of the source file in place of sr
WrittenFile_rate(dir, name, audio, rate) ==
    [dir |-> dir, name |-> name, sr |-> 2 * rate, audio |-> audio]

\* sf.write of the audio dithered by a generator seeded from the path
WrittenFile_dithered(dir, name, audio, rate) ==
    [dir |-> dir, name |-> name, sr |-> rate,
     audio |-> [audio EXCEPT !.den = @ * (1 + dir)]]

\* sf.write(path, audio, sr)
WrittenFile(dir, name, audio, rate) ==
    [dir |-> dir, name |-> name, sr |-> rate, audio |-> audio]

\* tempfile.mkdtemp(): a directory that does not exist yet
FreshDir == 1 + Cardinality(dirs)

NoCause == [stage |-> "none", exc |-> NoError]

\* an except clause that logs and returns what was written so far
SepRaise_returns(e, stage) ==
    /\ sep_cause' = [stage |-> stage, exc |-> e]
    /\ sep_error' = sep_error
    /\ sep_pc' = "returned"

\* An exception e reaches the except clause of separate_audio_simple.
SepRaise(e, stage) ==
    /\ sep_cause' = [stage |-> stage, exc |-> e]
    /\ sep_error' = separate_except(e)
    /\ sep_pc' = "raised"

\* y, sr = librosa.load(audio_path, sr=22050)
SepLoad ==
    /\ sep_pc = "load"
    /\ IF input.corrupt
       THEN /\ SepRaise(Exc("NoBackendError", "cannot decode"), "load")
            /\ UNCHANGED << y, sr, sep_done >>
       ELSE /\ y' = [n |-> input.n, harm |-> input.harm, click |-> input.click]
            /\ sr' = SR
            /\ sep_done' = sep_done \cup {"load"}
            /\ sep_pc' = "check"
            /\ UNCHANGED << sep_error, sep_cause >>
    /\ UNCHANGED << temp_dir, output_files, y_harmonic, y_percussive,
                    S_harmonic, S_percussive, S_harmonic_phase,
                    S_percussive_phase >>
    /\ UNCHANGED << envVars, fsVars, puVars, usVars, unitVars >>

\* if duration < 0.5: raise Exception(f"Audio too short ({duration:.2f}s)...")
SepCheck ==
    /\ sep_pc = "check"
    /\ IF TooShort(y.n, sr)
       THEN /\ SepRaise(Exc("Exception",
                            "Audio too short (" \o ToString(y.n) \o "/"
                               \o ToString(sr)
                               \o "s). Minimum 0.5 seconds required"),
                        "check")
            /\ UNCHANGED sep_done
       ELSE /\ sep_done' = sep_done \cup {"check"}
            /\ sep_pc' = "mkdtemp"
            /\ UNCHANGED << sep_error, sep_cause >>
    /\ UNCHANGED << y, sr, temp_dir, output_files, y_harmonic, y_percussive,
                    S_harmonic, S_percussive, S_harmonic_phase,
                    S_percussive_phase >>
    /\ UNCHANGED << envVars, fsVars, puVars, usVars, unitVars >>

\* temp_dir = tempfile.mkdtemp(); output_files = {}
SepMkdtemp ==
    /\ sep_pc = "mkdtemp"
    /\ temp_dir' = FreshDir
    /\ dirs' = dirs \cup {FreshDir}
    /\ output_files' = << >>
    /\ sep_done' = sep_done \cup {"mkdtemp"}
    /\ sep_pc' = "hpss"
    /\ UNCHANGED << y, sr, y_harmonic, y_percussive, S_harmonic, S_percussive,
                    S_harmonic_phase, S_percussive_phase, sep_error,
                    sep_cause, files >>
    /\ UNCHANGED << envVars, puVars, usVars, unitVars >>

\* y_harmonic, y_percussive = librosa.effects.hpss(y, margin=2.0)
SepHpss ==
    /\ sep_pc = "hpss"
    /\ \E ok \in BOOLEAN :
         IF ok
         THEN /\ y_harmonic' = hpss(y)[1]
              /\ y_percussive' = hpss(y)[2]
              /\ sep_done' = sep_done \cup {"hpss"}
              /\ sep_pc' = "stft"
              /\ UNCHANGED << sep_error, sep_cause >>
         ELSE /\ SepRaise(Exc("ParameterError", "hpss failed"), "hpss")
              /\ UNCHANGED << y_harmonic, y_percussive, sep_done >>
    /\ UNCHANGED << y, sr, temp_dir, output_files, S_harmonic, S_percussive,
                    S_harmonic_phase, S_percussive_phase >>
    /\ UNCHANGED << envVars, fsVars, puVars, usVars, unitVars >>

\* S_harmonic = librosa.magphase(librosa.stft(y_harmonic))[0] ...
\* S_harmonic_phase = np.angle(librosa.stft(y_harmonic)) ...
SepStft ==
    /\ sep_pc = "stft"
    /\ S_harmonic' = magphase(stft(y_harmonic))
    /\ S_percussive' = magphase(stft(y_percussive))
    /\ S_harmonic_phase' = angle(stft(y_harmonic))
    /\ S_percussive_phase' = angle(stft(y_percussive))
    /\ sep_done' = sep_done \cup {"stft"}
    /\ sep_pc' = "stems"
    /\ UNCHANGED << y, sr, temp_dir, output_files, y_harmonic, y_percussive,
                    sep_error, sep_cause >>
    /\ UNCHANGED << envVars, fsVars, puVars, usVars, unitVars >>

\* One stem section: mask, reconstruction, normalization, sf.write and
\* output_files[name] = path.  The reconstruction may raise (nothing is
\* written) and sf.write may raise (a truncated file is left behind).
SepStem ==
    /\ sep_pc = "stems"
    /\ Len(output_files) < Len(StemNames)
    /\ LET name == StemNames[Len(output_files) + 1]
           path == PathOf(temp_dir, name)
       IN  \E outcome \in {"ok", "synth", "write"} :
             CASE outcome = "ok" ->
                    /\ files' = files \cup
                         {WrittenFile(temp_dir, name, Synthesize(name), sr)}
                    /\ output_files' =
                         Append(output_files, [name |-> name, path |-> path])
                    /\ sep_done' = sep_done \cup {name}
                    /\ UNCHANGED << sep_pc, sep_error, sep_cause >>
               [] outcome = "synth" ->
                    /\ SepRaise(Exc("ParameterError", "istft failed"), name)
                    /\ UNCHANGED << files, output_files, sep_done >>
               [] outcome = "write" ->
                    /\ SepRaise(Exc("LibsndfileError", "write failed"), name)
                    /\ files' = files \cup
                         {WrittenFile(temp_dir, name, Wave(<< >>), sr)}
                    /\ UNCHANGED << output_files, sep_done >>
    /\ UNCHANGED << y, sr, temp_dir, y_harmonic, y_percussive, S_harmonic,
                    S_percussive, S_harmonic_phase, S_percussive_phase, dirs >>
    /\ UNCHANGED << envVars, puVars, usVars, unitVars >>

\* return output_files, temp_dir
SepReturn ==
    /\ sep_pc = "stems"
    /\ Len(output_files) = Len(StemNames)
    /\ sep_pc' = "returned"
    /\ UNCHANGED << y, sr, temp_dir, output_files, y_harmonic, y_percussive,
                    S_harmonic, S_percussive, S_harmonic_phase,
                    S_percussive_phase, sep_error, sep_done, sep_cause >>
    /\ UNCHANGED << envVars, fsVars, puVars, usVars, unitVars >>

NextSep ==
    \/ SepLoad
    \/ SepCheck
    \/ SepMkdtemp
    \/ SepHpss
    \/ SepStft
    \/ SepStem
    \/ SepReturn

\* --------------------------------------------------------- initial values
SepIdle ==
    /\ y = [n |-> 0, harm |-> ZeroSpec, click |-> 0]
    /\ sr = 0
    /\ temp_dir = 0
    /\ output_files = << >>
    /\ y_harmonic = Silence
    /\ y_percussive = Silence
    /\ S_harmonic = ZeroSpec
    /\ S_percussive = ZeroSpec
    /\ S_harmonic_phase = angle(ZeroSpec)
    /\ S_percussive_phase = angle(ZeroSpec)
    /\ sep_error = NoError
    /\ sep_done = {}
    /\ sep_cause = NoCause

NoProject == [exists |-> FALSE, status |-> None, results |-> << >>,
              total_stems |-> 0, error |-> None]

NoResponse == [code |-> 0, status |-> None, results |-> << >>,
               total_stems |-> 0, error |-> None]

NoRequest == [owned |-> FALSE, has_file |-> FALSE, filename |-> ""]

PuIdle ==
    /\ pu_pc = "idle"
    /\ pu_temp_dir = 0
    /\ stems = << >>
    /\ results = << >>
    /\ total_stems = 0
    /\ pu_error = NoError
    /\ attempted = {}
    /\ uploaded = {}

UsIdle ==
    /\ us_pc = "idle"
    /\ request = NoRequest
    /\ project = NoProject
    /\ temp_audio_path = FALSE
    /\ response = NoResponse
    /\ us_error = NoError
    /\ db_log = << >>

NormIdle ==
    /\ norm_in = Wave(<< >>)
    /\ norm_out = Wave(<< >>)

MaskIdle ==
    /\ mask_name = None
    /\ mask_k = 0
    /\ mask_gain = -1

ParIdle ==
    /\ call = << >>
    /\ written = {}

\* separate_audio_simple called on its own, on every recording of the bounds.
InitSep ==
    /\ input \in AllInputs
    /\ cloudinary_configured = FALSE
    /\ dirs = {}
    /\ files = {}
    /\ sep_pc = "load"
    /\ SepIdle
    /\ PuIdle
    /\ UsIdle
    /\ NormIdle
    /\ MaskIdle
    /\ ParIdle

SpecSep == InitSep /\ [][NextSep]_vars

\* ======================================================= upload_to_cloudinary
\* os.path.exists(path)
Exists(path) ==
    /\ path[1] \in dirs
    /\ \E f \in files : f.dir = path[1] /\ f.name = path[2]

\* What the storage service does with one upload: it answers with a URL,
\* the call times out, or it answers without a secure_url.
UploadOutcomes == { "ok", "timeout", "nourl" }

\* The except clause of upload_to_cloudinary: the message picks the error.
cloudinary_except(error_msg) ==
    IF error_msg = "authentication"
    THEN Exc("Exception", "Cloudinary authentication failed.")
    ELSE IF error_msg = "timeout"
    THEN Exc("Exception", "Upload timeout.")
    ELSE IF error_msg = "invalid"
    THEN Exc("Exception", "Invalid Cloudinary configuration: " \o error_msg)
    ELSE Exc("Exception", "Cloudinary upload failed: " \o error_msg)

\* upload_to_cloudinary(file_path, public_id): the response it returns, or
\* the exception it raises.
upload_to_cloudinary(file_path, public_id, outcome) ==
    IF ~cloudinary_configured
    THEN [raised |-> TRUE,
          exc |-> Exc("Exception", "Cloudinary is not configured.")]
    ELSE IF ~Exists(file_path)
    THEN [raised |-> TRUE, exc |-> cloudinary_except("File does not exist")]
    ELSE IF outcome = "timeout"
    THEN [raised |-> TRUE, exc |-> cloudinary_except("timeout")]
    ELSE IF outcome = "nourl"
    THEN [raised |-> TRUE,
          exc |-> cloudinary_except("Upload successful but no URL returned")]
    ELSE [raised |-> FALSE,
          secure_url |-> "https://res/" \o public_id,
          public_id  |-> "music_separation/" \o public_id,
          format     |-> "wav",
          bytes      |-> "size"]

\* ========================================================= process_and_upload
\* d.get(key)
Get(d, key) == IF key \in DOMAIN d THEN d[key] ELSE None

\* shutil.rmtree(dir, ignore_errors=True)
FilesAfterRmtree(dir) == { f \in files : f.dir # dir }

\* The entry one iteration of the upload loop stores for stem st.
StemEntry(st, outcome) ==
    IF ~Exists(st.path)
    THEN [stem |-> st.name, url |-> None, error |-> "File not found"]
    ELSE LET r == upload_to_cloudinary(st.path, st.name, outcome)
         IN  IF r.raised
             THEN [stem |-> st.name, url |-> None, error |-> r.exc.msg]
             ELSE [stem |-> st.name, url |-> r.secure_url,
                   public_id |-> r.public_id, format |-> r.format,
                   size |-> r.bytes]

\* process_and_upload removing the stem directory as soon as separation
\* returned, ahead of the upload loop
PuSeparated_cleans ==
    /\ pu_pc = "separating"
    /\ sep_pc = "returned"
    /\ stems' = output_files
    /\ pu_temp_dir' = temp_dir
    /\ results' = << >>
    /\ total_stems' = Len(output_files)
    /\ pu_pc' = "uploading"
    /\ dirs' = dirs \ {temp_dir}
    /\ files' = FilesAfterRmtree(temp_dir)
    /\ UNCHANGED << pu_error, attempted, uploaded >>
    /\ UNCHANGED << envVars, sepVars, usVars, unitVars >>

\* stems, temp_dir = self.separate_audio_simple(audio_file_path) returned:
\* results = {'stems': {}, ..., 'total_stems': len(stems)}
PuSeparated ==
    /\ pu_pc = "separating"
    /\ sep_pc = "returned"
    /\ stems' = output_files
    /\ pu_temp_dir' = temp_dir
    /\ results' = << >>
    /\ total_stems' = Len(output_files)
    /\ pu_pc' = "uploading"
    /\ UNCHANGED << pu_error, attempted, uploaded >>
    /\ UNCHANGED << envVars, fsVars, sepVars, usVars, unitVars >>

\* separate_audio_simple raised: the except clause wraps the exception and
\* the finally clause finds temp_dir still None.
PuSeparateRaised ==
    /\ pu_pc = "separating"
    /\ sep_pc = "raised"
    /\ pu_error' = process_except(sep_error)
    /\ IF pu_temp_dir # 0 /\ pu_temp_dir \in dirs
       THEN /\ dirs' = dirs \ {pu_temp_dir}
            /\ files' = FilesAfterRmtree(pu_temp_dir)
       ELSE UNCHANGED << dirs, files >>
    /\ pu_pc' = "raised"
    /\ UNCHANGED << pu_temp_dir, stems, results, total_stems, attempted, uploaded >>
    /\ UNCHANGED << envVars, sepVars, usVars, unitVars >>

\* the upload loop without its inner try/except: a failed upload leaves
\* the loop for the outer except clause (and the finally clause)
PuUploadStem_abort ==
    /\ pu_pc = "uploading"
    /\ Len(results) < Len(stems)
    /\ LET st == stems[Len(results) + 1]
       IN  \E outcome \in UploadOutcomes :
             LET entry == StemEntry(st, outcome)
             IN  /\ attempted' = attempted \cup {st.name}
                 /\ IF "error" \in DOMAIN entry /\ Exists(st.path)
                    THEN /\ pu_error' = process_except(Exc("Exception", entry.error))
                         /\ pu_pc' = "raised"
                         /\ dirs' = dirs \ {pu_temp_dir}
                         /\ files' = FilesAfterRmtree(pu_temp_dir)
                         /\ UNCHANGED << results, uploaded >>
                    ELSE /\ results' = Append(results, entry)
                         /\ uploaded' = uploaded \cup {st.name}
                         /\ UNCHANGED << pu_pc, pu_error, dirs, files >>
    /\ UNCHANGED << pu_temp_dir, stems, total_stems >>
    /\ UNCHANGED << envVars, sepVars, usVars, unitVars >>

\* One iteration of: for stem_name, stem_path in stems.items()
PuUploadStem ==
    /\ pu_pc = "uploading"
    /\ Len(results) < Len(stems)
    /\ LET st == stems[Len(results) + 1]
       IN  \E outcome \in UploadOutcomes :
             /\ results' = Append(results, StemEntry(st, outcome))
             /\ attempted' = attempted \cup {st.name}
             /\ uploaded' =
                  IF Exists(st.path)
                     /\ ~upload_to_cloudinary(st.path, st.name, outcome).raised
                  THEN uploaded \cup {st.name}
                  ELSE uploaded
    /\ UNCHANGED << pu_pc, pu_temp_dir, stems, total_stems, pu_error >>
    /\ UNCHANGED << envVars, fsVars, sepVars, usVars, unitVars >>

\* return results, then the finally clause removes the directory.
PuReturn ==
    /\ pu_pc = "uploading"
    /\ Len(results) = Len(stems)
    /\ IF pu_temp_dir # 0 /\ pu_temp_dir \in dirs
       THEN /\ dirs' = dirs \ {pu_temp_dir}
            /\ files' = FilesAfterRmtree(pu_temp_dir)
       ELSE UNCHANGED << dirs, files >>
    /\ pu_pc' = "returned"
    /\ UNCHANGED << pu_temp_dir, stems, results, total_stems, pu_error,
                    attempted, uploaded >>
    /\ UNCHANGED << envVars, sepVars, usVars, unitVars >>

\* ================================================================ upload_song
ALLOWED_EXTENSIONS == { "mp3", "wav", "flac", "ogg", "m4a" }

\* str.lower() on the extensions of the model
Lower(x) ==
    CASE x = "MP3" -> "mp3"
      [] x = "WAV" -> "wav"
      [] OTHER -> x

\* A filename is the sequence of its '.'-separated parts; '' is << "" >>.
\* file.filename.rsplit('.', 1)[-1].lower()
FileExt(filename) == Lower(filename[Len(filename)])

Filenames ==
    { << "" >>, << "song", "MP3" >>, << "notes", "txt" >> }

Requests ==
    [owned : BOOLEAN, has_file : BOOLEAN, filename : Filenames]

\* format_stem_name(stem_name): words capitalized, '_' turned into ' '
format_stem_name(stem_name) ==
    CASE stem_name = "vocals"       -> "Vocals"
      [] stem_name = "drums"        -> "Drums"
      [] stem_name = "bass"         -> "Bass"
      [] stem_name = "guitar"       -> "Guitar"
      [] stem_name = "piano"        -> "Piano"
      [] stem_name = "flute"        -> "Flute"
      [] stem_name = "strings"      -> "Strings"
      [] stem_name = "background"   -> "Background"
      [] stem_name = "instrumental" -> "Instrumental"

\* get_instrument_emoji(stem_name): the first key of the table found in the
\* name; no stem name contains the key of another.
get_instrument_emoji(stem_name) ==
    CASE stem_name = "vocals"       -> "microphone"
      [] stem_name = "drums"        -> "drum"
      [] stem_name = "bass"         -> "speaker"
      [] stem_name = "guitar"       -> "guitar"
      [] stem_name = "piano"        -> "keyboard"
      [] stem_name = "flute"        -> "feather"
      [] stem_name = "strings"      -> "violin"
      [] stem_name = "instrumental" -> "trumpet"
      [] stem_name = "background"   -> "sparkles"
      [] OTHER -> "note"

\* formatted_results[stem_name] = {...}
Formatted(stem_data) ==
    [stem      |-> stem_data.stem,
     name      |-> format_stem_name(stem_data.stem),
     emoji     |-> get_instrument_emoji(stem_data.stem),
     url       |-> Get(stem_data, "url"),
     public_id |-> Get(stem_data, "public_id"),
     format    |-> Get(stem_data, "format"),
     size      |-> Get(stem_data, "size"),
     error     |-> Get(stem_data, "error")]

formatted_results(res) == [i \in 1..Len(res) |-> Formatted(res[i])]

\* Python truth of a url: neither None nor ''
Truthy(v) == v # None /\ v # ""

\* the filter keeping every stem that has an entry
HasUrl_any(v) == "url" \in DOMAIN v

HasUrl(v) == Truthy(Get(v, "url"))

\* {k: v for k, v in formatted_results.items() if v.get('url')}
successful_stems(formatted) == SelectSeq(formatted, HasUrl)

\* get_results: the JSON it answers for a project that exists
get_results(doc) ==
    [status      |-> doc.status,
     results     |-> successful_stems(doc.results),
     total_stems |-> Len(successful_stems(doc.results)),
     error       |-> doc.error]

Reply(code, error) ==
    [code |-> code, status |-> None, results |-> << >>, total_stems |-> 0,
     error |-> error]

\* create_project: doc_ref.set(project_data) for a project of this user.
project_data ==
    [exists |-> TRUE, status |-> "created", results |-> << >>,
     total_stems |-> 0, error |-> None]

\* create_project storing the document with 'status': 'new'
CreateProject_new ==
    /\ us_pc = "create"
    /\ project' = [project_data EXCEPT !.status = "new"]
    /\ us_pc' = "start"
    /\ UNCHANGED << request, temp_audio_path, response, us_error, db_log >>
    /\ UNCHANGED << envVars, fsVars, sepVars, puVars, unitVars >>

CreateProject ==
    /\ us_pc = "create"
    /\ project' = project_data
    /\ us_pc' = "start"
    /\ UNCHANGED << request, temp_audio_path, response, us_error, db_log >>
    /\ UNCHANGED << envVars, fsVars, sepVars, puVars, unitVars >>

\* upload_song copying the upload to its temporary file ahead of the
\* extension check
UsStart_savefirst ==
    /\ us_pc = "start"
    /\ IF ~project.exists
       THEN /\ response' = Reply(403, "Unauthorized")
            /\ us_pc' = "done"
            /\ UNCHANGED temp_audio_path
       ELSE IF ~request.has_file
       THEN /\ response' = Reply(400, "No file provided")
            /\ us_pc' = "done"
            /\ UNCHANGED temp_audio_path
       ELSE IF request.filename = << "" >>
       THEN /\ response' = Reply(400, "No file selected")
            /\ us_pc' = "done"
            /\ UNCHANGED temp_audio_path
       ELSE IF FileExt(request.filename) \notin ALLOWED_EXTENSIONS
       THEN /\ response' = Reply(400, "Invalid file type")
            /\ us_pc' = "done"
            /\ temp_audio_path' = TRUE
       ELSE /\ temp_audio_path' = TRUE
            /\ us_pc' = "saved"
            /\ UNCHANGED response
    /\ UNCHANGED << request, project, us_error, db_log >>
    /\ UNCHANGED << envVars, fsVars, sepVars, puVars, unitVars >>

\* The checks of upload_song up to the temporary copy of the upload.
UsStart ==
    /\ us_pc = "start"
    /\ IF ~project.exists
       THEN /\ response' = Reply(403, "Unauthorized")
            /\ us_pc' = "done"
            /\ UNCHANGED temp_audio_path
       ELSE IF ~request.has_file
       THEN /\ response' = Reply(400, "No file provided")
            /\ us_pc' = "done"
            /\ UNCHANGED temp_audio_path
       ELSE IF request.filename = << "" >>
       THEN /\ response' = Reply(400, "No file selected")
            /\ us_pc' = "done"
            /\ UNCHANGED temp_audio_path
       ELSE IF FileExt(request.filename) \notin ALLOWED_EXTENSIONS
       THEN /\ response' = Reply(400, "Invalid file type")
            /\ us_pc' = "done"
            /\ UNCHANGED temp_audio_path
       ELSE /\ temp_audio_path' = TRUE
            /\ us_pc' = "saved"
            /\ UNCHANGED response
    /\ UNCHANGED << request, project, us_error, db_log >>
    /\ UNCHANGED << envVars, fsVars, sepVars, puVars, unitVars >>

\* A status update of the project document: the datastore accepts it, or
\* the call raises and the document is left as it was.
Logged(status, ok) == Append(db_log, [status |-> status, ok |-> ok])

DatastoreError == Exc("ServiceUnavailable", "datastore unavailable")

\* update({'status': 'processing'}), then the call of process_and_upload,
\* which binds temp_dir = None and calls separate_audio_simple.  A rejected
\* update raises into the inner except clause.
UsProcessing ==
    /\ us_pc = "saved"
    /\ \E ok \in BOOLEAN :
         /\ db_log' = Logged("processing", ok)
         /\ IF ok
            THEN /\ project' = [project EXCEPT !.status = "processing"]
                 /\ us_pc' = "processing"
                 /\ pu_pc' = "separating"
                 /\ pu_temp_dir' = 0
                 /\ sep_pc' = "load"
                 /\ UNCHANGED us_error
            ELSE /\ us_error' = DatastoreError
                 /\ us_pc' = "except"
                 /\ UNCHANGED << project, pu_pc, pu_temp_dir, sep_pc >>
    /\ UNCHANGED << request, temp_audio_path, response >>
    /\ UNCHANGED << stems, results, total_stems, pu_error, attempted, uploaded >>
    /\ UNCHANGED << y, sr, temp_dir, output_files, y_harmonic, y_percussive,
                    S_harmonic, S_percussive, S_harmonic_phase,
                    S_percussive_phase, sep_error, sep_done, sep_cause >>
    /\ UNCHANGED << envVars, fsVars, unitVars >>

\* upload_song marking the project failed unless every stem was uploaded
UsCompleted_strict ==
    /\ us_pc = "processing"
    /\ pu_pc = "returned"
    /\ LET formatted == formatted_results(results)
           successful == successful_stems(formatted)
           all_ok == Len(successful) = Len(formatted)
       IN  /\ db_log' =
                Logged(IF all_ok THEN "completed" ELSE "failed", TRUE)
           /\ project' = [project EXCEPT
                            !.results = formatted,
                            !.status = IF all_ok THEN "completed" ELSE "failed",
                            !.total_stems = Len(successful)]
           /\ response' = [code |-> 200, status |-> "success",
                           results |-> successful,
                           total_stems |-> Len(successful), error |-> None]
    /\ temp_audio_path' = FALSE
    /\ us_pc' = "done"
    /\ UNCHANGED << request, us_error >>
    /\ UNCHANGED << envVars, fsVars, sepVars, puVars, unitVars >>

\* process_and_upload returned: results are formatted and stored, the
\* successful ones answered; the finally clause removes the input file.
\* A rejected update raises into the inner except clause.
UsCompleted ==
    /\ us_pc = "processing"
    /\ pu_pc = "returned"
    /\ LET formatted == formatted_results(results)
           successful == successful_stems(formatted)
       IN  \E ok \in BOOLEAN :
             /\ db_log' = Logged("completed", ok)
             /\ IF ok
                THEN /\ project' = [project EXCEPT
                                      !.results = formatted,
                                      !.status = "completed",
                                      !.total_stems = Len(successful)]
                     /\ response' = [code |-> 200, status |-> "success",
                                     results |-> successful,
                                     total_stems |-> Len(successful),
                                     error |-> None]
                     /\ temp_audio_path' = FALSE
                     /\ us_pc' = "done"
                     /\ UNCHANGED us_error
                ELSE /\ us_error' = DatastoreError
                     /\ us_pc' = "except"
                     /\ UNCHANGED << project, response, temp_audio_path >>
    /\ UNCHANGED request
    /\ UNCHANGED << envVars, fsVars, sepVars, puVars, unitVars >>

\* The inner except clause, entered when process_and_upload raised or a
\* status update was rejected: the project is marked failed and the finally
\* clause removes the input file.  When this update is rejected too, the
\* exception leaves through the finally clause to the outer except clause.
UsFailed ==
    /\ \/ us_pc = "processing" /\ pu_pc = "raised"
       \/ us_pc = "except"
    /\ LET e == IF us_pc = "except" THEN us_error ELSE pu_error
       IN  \E ok \in BOOLEAN :
             /\ db_log' = Logged("failed", ok)
             /\ us_error' = e
             /\ IF ok
                THEN /\ project' = [project EXCEPT !.status = "failed",
                                                   !.error = e.msg]
                     /\ response' = [code |-> 500, status |-> "error",
                                     results |-> << >>, total_stems |-> 0,
                                     error |-> "Processing failed: " \o e.msg]
                ELSE /\ response' = Reply(500, "Upload failed")
                     /\ UNCHANGED project
    /\ temp_audio_path' = FALSE
    /\ us_pc' = "done"
    /\ UNCHANGED request
    /\ UNCHANGED << envVars, fsVars, sepVars, puVars, unitVars >>

\* ======================================================== the whole service
\* Recordings of the service runs: a corrupt file, a tone one sample short of
\* half a second, a tone of exactly half a second, two seconds of silence.
ServiceInputs ==
    { CorruptFile,
      Recording((SR \div 2) - 1, Tone440(1), 0),
      Recording(SR \div 2, Tone440(1), 0),
      Recording(2 * SR, ZeroSpec, 0) }

Init ==
    /\ input \in ServiceInputs
    /\ cloudinary_configured \in BOOLEAN
    /\ dirs = {}
    /\ files = {}
    /\ sep_pc = "idle"
    /\ SepIdle
    /\ PuIdle
    /\ request \in Requests
    /\ project = NoProject
    /\ us_pc = IF request.owned THEN "create" ELSE "start"
    /\ temp_audio_path = FALSE
    /\ response = NoResponse
    /\ us_error = NoError
    /\ db_log = << >>
    /\ NormIdle
    /\ MaskIdle
    /\ ParIdle

Next ==
    \/ CreateProject
    \/ UsStart
    \/ UsProcessing
    \/ SepLoad
    \/ SepCheck
    \/ SepMkdtemp
    \/ SepHpss
    \/ SepStft
    \/ SepStem
    \/ SepReturn
    \/ PuSeparated
    \/ PuSeparateRaised
    \/ PuUploadStem
    \/ PuReturn
    \/ UsCompleted
    \/ UsFailed

Spec == Init /\ [][Next]_vars

\* A request runs on a server thread that keeps running: whenever a step of
\* the request is possible, a step is eventually taken.
SpecLive == Init /\ [][Next]_vars /\ WF_vars(Next)

\* ============================================== _normalize_audio on its own
Samples == (-MaxSample)..MaxSample

Waveforms ==
    UNION { { Wave(s) : s \in [1..n -> Samples] } : n \in 1..MaxLen }

InitNorm ==
    /\ input = CorruptFile
    /\ cloudinary_configured = FALSE
    /\ dirs = {}
    /\ files = {}
    /\ sep_pc = "idle"
    /\ SepIdle
    /\ PuIdle
    /\ UsIdle
    /\ norm_in \in Waveforms
    /\ norm_out = Wave(<< >>)
    /\ MaskIdle
    /\ ParIdle

Normalize ==
    /\ norm_out = Wave(<< >>)
    /\ norm_out' = _normalize_audio(norm_in)
    /\ UNCHANGED norm_in
    /\ UNCHANGED << envVars, fsVars, sepVars, puVars, usVars, maskVars, parVars >>

NextNorm == Normalize

SpecNorm == InitNorm /\ [][NextNorm]_vars

\* ================================================= the stem masks on their own
\* Every stem at every index of freqs (n_fft / 2 + 1 bins).
InitMask ==
    /\ input = CorruptFile
    /\ cloudinary_configured = FALSE
    /\ dirs = {}
    /\ files = {}
    /\ sep_pc = "idle"
    /\ SepIdle
    /\ PuIdle
    /\ UsIdle
    /\ NormIdle
    /\ mask_name \in StemSet
    /\ mask_k \in AllBins
    /\ mask_gain = -1
    /\ ParIdle

\* The mask of the stem's section is built; its entry at the index is read.
BuildMask ==
    /\ mask_gain = -1
    /\ mask_gain' = MaskOf(mask_name, mask_k)
    /\ UNCHANGED << mask_name, mask_k >>
    /\ UNCHANGED << envVars, fsVars, sepVars, puVars, usVars, normVars, parVars >>

NextMask == BuildMask

SpecMask == InitMask /\ [][NextMask]_vars

\* ============================== two concurrent calls of separate_audio_simple
\* app.py serves every request with the one module-level MusicProcessor; the
\* locals of a call are its own, the file system is shared.
MaxDirs == 3

TempNames == 1..MaxDirs

Calls == { 1, 2 }

\* a fixed stem directory in place of tempfile.mkdtemp()
FreshNames_fixed == { 1 }

\* tempfile.mkdtemp(): a directory under any name no directory has yet
FreshNames == TempNames \ dirs

\* A corrupt file, a tone one sample short of half a second, a tone of half
\* a second, and two seconds of a low partial (inverted) with a click.
ParInputs ==
    { CorruptFile,
      Recording((SR \div 2) - 1, Tone440(1), 0),
      Recording(SR \div 2, Tone440(1), 0),
      Recording(2 * SR, [k \in Bins |-> IF BinK[k] = 10 THEN -8 ELSE 0], 8) }

\* The locals of a call that was just entered with audio_path = inp.
CallStart(inp) ==
    [pc |-> "load", input |-> inp,
     y |-> [n |-> 0, harm |-> ZeroSpec, click |-> 0], sr |-> 0,
     temp_dir |-> 0, output_files |-> << >>,
     y_harmonic |-> Silence, y_percussive |-> Silence,
     S_harmonic |-> ZeroSpec, S_percussive |-> ZeroSpec,
     S_harmonic_phase |-> angle(ZeroSpec),
     S_percussive_phase |-> angle(ZeroSpec),
     sep_error |-> NoError]

\* The except clause of the call whose locals are L.
CallRaise(L, e) == [L EXCEPT !.pc = "raised", !.sep_error = separate_except(e)]

\* The stem section of `name` in the call whose locals are L.
CallSynthesize(L, name) ==
    IF name \in PercussiveStems
    THEN Reconstruct(name, L.S_percussive, L.S_percussive_phase)
    ELSE Reconstruct(name, L.S_harmonic, L.S_harmonic_phase)

\* sf.write creates the file or replaces the one at its path.
Overwrite(fs, f) ==
    { g \in fs : ~(g.dir = f.dir /\ g.name = f.name) } \cup { f }

ParFrame == UNCHANGED << envVars, sepVars, puVars, usVars, normVars, maskVars >>

ParLoad(c) ==
    /\ call[c].pc = "load"
    /\ LET L == call[c]
       IN  call' = [call EXCEPT ![c] =
             IF L.input.corrupt
             THEN CallRaise(L, Exc("NoBackendError", "cannot decode"))
             ELSE [L EXCEPT !.y = [n |-> L.input.n, harm |-> L.input.harm,
                                   click |-> L.input.click],
                            !.sr = SR, !.pc = "check"]]
    /\ UNCHANGED << written, dirs, files >>
    /\ ParFrame

ParCheck(c) ==
    /\ call[c].pc = "check"
    /\ LET L == call[c]
       IN  call' = [call EXCEPT ![c] =
             IF TooShort(L.y.n, L.sr)
             THEN CallRaise(L, Exc("Exception", "Audio too short"))
             ELSE [L EXCEPT !.pc = "mkdtemp"]]
    /\ UNCHANGED << written, dirs, files >>
    /\ ParFrame

ParMkdtemp(c) ==
    /\ call[c].pc = "mkdtemp"
    /\ \E d \in FreshNames :
         /\ call' = [call EXCEPT ![c] =
              [@ EXCEPT !.temp_dir = d, !.output_files = << >>, !.pc = "hpss"]]
         /\ dirs' = dirs \cup {d}
    /\ UNCHANGED << written, files >>
    /\ ParFrame

ParHpss(c) ==
    /\ call[c].pc = "hpss"
    /\ LET L == call[c]
       IN  \E ok \in BOOLEAN :
             call' = [call EXCEPT ![c] =
               IF ok
               THEN [L EXCEPT !.y_harmonic = hpss(L.y)[1],
                              !.y_percussive = hpss(L.y)[2], !.pc = "stft"]
               ELSE CallRaise(L, Exc("ParameterError", "hpss failed"))]
    /\ UNCHANGED << written, dirs, files >>
    /\ ParFrame

ParStft(c) ==
    /\ call[c].pc = "stft"
    /\ LET L == call[c]
       IN  call' = [call EXCEPT ![c] =
             [L EXCEPT !.S_harmonic = magphase(stft(L.y_harmonic)),
                       !.S_percussive = magphase(stft(L.y_percussive)),
                       !.S_harmonic_phase = angle(stft(L.y_harmonic)),
                       !.S_percussive_phase = angle(stft(L.y_percussive)),
                       !.pc = "stems"]]
    /\ UNCHANGED << written, dirs, files >>
    /\ ParFrame

ParStem(c) ==
    /\ call[c].pc = "stems"
    /\ Len(call[c].output_files) < Len(StemNames)
    /\ LET L    == call[c]
           name == StemNames[Len(L.output_files) + 1]
           path == PathOf(L.temp_dir, name)
           mark == [by |-> c, dir |-> L.temp_dir, name |-> name]
       IN  \E outcome \in {"ok", "synth", "write"} :
             CASE outcome = "ok" ->
                    /\ files' = Overwrite(files,
                         WrittenFile(L.temp_dir, name,
                                     CallSynthesize(L, name), L.sr))
                    /\ written' = written \cup {mark}
                    /\ call' = [call EXCEPT ![c].output_files =
                         Append(@, [name |-> name, path |-> path])]
               [] outcome = "synth" ->
                    /\ call' = [call EXCEPT ![c] =
                         CallRaise(@, Exc("ParameterError", "istft failed"))]
                    /\ UNCHANGED << files, written >>
               [] outcome = "write" ->
                    /\ files' = Overwrite(files,
                         WrittenFile(L.temp_dir, name, Wave(<< >>), L.sr))
                    /\ written' = written \cup {mark}
                    /\ call' = [call EXCEPT ![c] =
                         CallRaise(@, Exc("LibsndfileError", "write failed"))]
    /\ UNCHANGED dirs
    /\ ParFrame

ParReturn(c) ==
    /\ call[c].pc = "stems"
    /\ Len(call[c].output_files) = Len(StemNames)
    /\ call' = [call EXCEPT ![c].pc = "returned"]
    /\ UNCHANGED << written, dirs, files >>
    /\ ParFrame

NextPar ==
    \/ \E c \in Calls : ParLoad(c)
    \/ \E c \in Calls : ParCheck(c)
    \/ \E c \in Calls : ParMkdtemp(c)
    \/ \E c \in Calls : ParHpss(c)
    \/ \E c \in Calls : ParStft(c)
    \/ \E c \in Calls : ParStem(c)
    \/ \E c \in Calls : ParReturn(c)

InitPar ==
    /\ input = CorruptFile
    /\ cloudinary_configured = FALSE
    /\ dirs = {}
    /\ files = {}
    /\ sep_pc = "idle"
    /\ SepIdle
    /\ PuIdle
    /\ UsIdle
    /\ NormIdle
    /\ MaskIdle
    /\ call \in [Calls -> { CallStart(inp) : inp \in ParInputs }]
    /\ written = {}

SpecPar == InitPar /\ [][NextPar]_vars

\* ================================================================ properties
Names(seq) == [i \in 1..Len(seq) |-> seq[i].name]

StemsOf(seq) == [i \in 1..Len(seq) |-> seq[i].stem]

NineNames ==
    << "vocals", "drums", "bass", "guitar", "piano",
       "flute", "strings", "background", "instrumental" >>

\* The file separate_audio_simple wrote for a stem; its waveform.
HasStemFile(name) ==
    \E f \in files : f.dir = temp_dir /\ f.name = name /\ f.audio.samples # << >>

StemAudio(name) ==
    (CHOOSE f \in files : f.dir = temp_dir /\ f.name = name).audio

\* max(|audio|) = level/100, from the samples themselves
TruePeakIs(audio, level) ==
    /\ audio.den > 0
    /\ \E i \in DOMAIN audio.samples :
         Abs(audio.samples[i]) * 100 = level * audio.den
    /\ \A i \in DOMAIN audio.samples :
         Abs(audio.samples[i]) * 100 <= level * audio.den

\* every sample is 0
IsSilent(audio) ==
    /\ audio.den > 0
    /\ \A i \in DOMAIN audio.samples : audio.samples[i] = 0

\* the peak is below a tenth of the target level
NearZero(audio) ==
    /\ audio.den > 0
    /\ \A i \in DOMAIN audio.samples :
         Abs(audio.samples[i]) * 1000 < 95 * audio.den

ValidInput == ~input.corrupt /\ 2 * input.n >= 22050

\* C1: separate is all-or-nothing.  A mapping is returned only with all 9
\* stems written and no failure; every failure (load, duration, HPSS, the
\* synthesis or the writing of any stem) ends the call in one raised
\* exception; process_and_upload never receives fewer than 9 stems.
C1_AllOrNothing ==
    /\ sep_pc = "returned" =>
         /\ Names(output_files) = NineNames
         /\ \A i \in 1..9 :
              /\ NineNames[i] \in sep_done
              /\ temp_dir \in dirs => HasStemFile(NineNames[i])
         /\ sep_cause = NoCause
         /\ sep_error = NoError
    /\ sep_cause.stage # "none" =>
         /\ sep_pc = "raised"
         /\ sep_error.kind # "none"
    /\ sep_pc = "raised" => stems = << >>
    /\ stems # << >> => Names(stems) = NineNames

\* the ninth stem fails after eight were written: the caller gets none
C1_Witness ==
    /\ sep_pc = "raised"
    /\ Len(output_files) = 8
    /\ pu_pc = "raised"
    /\ stems = << >>

\* C2: a recording of at least half a second, with no failing stage, yields
\* exactly the 9 named stems, once each, every one written at 22050 Hz; such
\* a recording is never refused by the load or the duration check.
C2_NineStems ==
    /\ sep_pc = "returned" =>
         /\ Names(output_files) = NineNames
         /\ Cardinality(files) = 9
         /\ \A i \in 1..9 :
              /\ output_files[i].path = << temp_dir, NineNames[i] >>
              /\ \E f \in files :
                   /\ f.dir = temp_dir
                   /\ f.name = NineNames[i]
                   /\ f.sr = 22050
                   /\ f.audio.samples # << >>
    /\ (ValidInput /\ sep_pc = "raised") => sep_cause.stage \notin {"load", "check"}

\* a recording of exactly half a second came back with its stems
C2_Witness ==
    /\ sep_pc = "returned"
    /\ input.n = 11025
    /\ Cardinality(files) = 9

\* C3: when process_and_upload has finished, returning or raising, no
\* temporary stem directory of the run is left.
C3_TempDirReleased ==
    pu_pc \in {"returned", "raised"} => dirs = {}

\* C4: the recording is refused as too short exactly when its decoded sample
\* count is below 11025 (half a second at 22050 Hz); the refusal comes before
\* HPSS and before any stem; 11025 samples are accepted.
C4_TooShortBoundary ==
    /\ sep_cause.stage = "check" =>
         /\ y.n < 11025
         /\ sep_pc = "raised"
         /\ "hpss" \notin sep_done
         /\ output_files = << >>
         /\ files = {}
    /\ ("load" \in sep_done /\ sep_pc # "check" /\ y.n < 11025) =>
         sep_cause.stage = "check"
    /\ ("load" \in sep_done /\ sep_pc # "check" /\ y.n >= 11025) =>
         "check" \in sep_done

\* exactly half a second went through HPSS and produced a stem
C4_Witness ==
    /\ y.n = 11025
    /\ "hpss" \in sep_done
    /\ Len(output_files) >= 1

\* The kind of error the taxonomy names for the stage that failed.
ClaimedKind(stage) ==
    CASE stage = "load"  -> "DecodeError"
      [] stage = "check" -> "AudioTooShortError"
      [] OTHER           -> "SeparationError"

C6_UploadFailuresNonFatal ==
    /\ pu_pc = "raised" => sep_pc = "raised"
    /\ pu_pc = "uploading" =>
         /\ StemsOf(results) = SubSeq(NineNames, 1, Len(results))
         /\ attempted = { results[i].stem : i \in 1..Len(results) }
    /\ pu_pc = "returned" =>
         /\ StemsOf(results) = NineNames
         /\ attempted = { NineNames[i] : i \in 1..9 }
         /\ pu_error = NoError

\* all nine uploads failed at a configured service, and the call returned
C6_Witness ==
    /\ pu_pc = "returned"
    /\ cloudinary_configured
    /\ uploaded = {}
    /\ Len(results) = 9
    /\ \A i \in 1..9 : "error" \in DOMAIN results[i]

\* C7: after upload_song answered 200, a stem whose upload failed has an
\* error and no URL, the stored results keep all 9 stems, and the stems
\* answered to the client, counted in total_stems and answered by
\* get_results are exactly those whose upload succeeded.
C7_SuccessfulSubset ==
    (us_pc = "done" /\ response.code = 200) =>
      /\ StemsOf(project.results) = NineNames
      /\ \A i \in 1..9 :
           IF NineNames[i] \in uploaded
           THEN /\ project.results[i].url # "None"
                /\ project.results[i].error = "None"
                /\ "error" \notin DOMAIN results[i]
           ELSE /\ "error" \in DOMAIN results[i]
                /\ results[i].error # "None"
                /\ results[i].url = "None"
                /\ project.results[i].error # "None"
                /\ project.results[i].url = "None"
      /\ { response.results[i].stem : i \in 1..Len(response.results) } = uploaded
      /\ Len(response.results) = Cardinality(uploaded)
      /\ response.total_stems = Cardinality(uploaded)
      /\ project.total_stems = Cardinality(uploaded)
      /\ get_results(project).results = response.results
      /\ get_results(project).total_stems = Cardinality(uploaded)

\* two uploads succeeded and seven failed
C7_Witness ==
    /\ us_pc = "done"
    /\ response.code = 200
    /\ uploaded = {"vocals", "bass"}
    /\ Len(project.results) = 9

\* C8: _normalize_audio of a waveform with a non-zero sample has peak 0.95
\* and is the input with every sample multiplied by 0.95 / peak.
C8_NormalizedPeak ==
    (norm_out # Wave(<< >>)
       /\ \E i \in DOMAIN norm_in.samples : norm_in.samples[i] # 0) =>
      /\ TruePeakIs(norm_out, 95)
      /\ Len(norm_out.samples) = Len(norm_in.samples)
      /\ \A p \in 1..MaxSample :
           TruePeakIs(norm_in, 100 * p) =>
             \A i \in DOMAIN norm_in.samples :
               norm_out.samples[i] * p * 100
                 = 95 * norm_in.samples[i] * norm_out.den

\* (-2, 1) became (-0.95, 0.475)
C8_Witness ==
    /\ norm_in = Wave(<< -2, 1 >>)
    /\ norm_out = [samples |-> << -190, 95 >>, den |-> 200]

SilentInput ==
    /\ ValidInput
    /\ \A k \in Bins : input.harm[k] = 0
    /\ input.click = 0

\* C9: an all-zero recording of valid duration yields 9 stems, each all-zero
\* and exactly as reconstructed: nothing is divided by the zero peak.
C9_SilenceStaysSilent ==
    SilentInput =>
      /\ \A f \in files :
           f.audio.samples # << >> =>
             /\ IsSilent(f.audio)
             /\ f.audio.den = 100
      /\ sep_pc = "returned" =>
           /\ Len(output_files) = 9
           /\ \A i \in 1..9 : HasStemFile(NineNames[i])

\* two seconds of silence came back as nine silent stems
C9_Witness ==
    /\ SilentInput
    /\ input.n = 44100
    /\ sep_pc = "returned"
    /\ \A i \in 1..9 : IsSilent(StemAudio(NineNames[i]))

\* A recording whose only partial is a 440 Hz tone.
ToneInput ==
    /\ ValidInput
    /\ input.click = 0
    /\ \E a \in 1..MaxMag : input.harm = Tone440(a) \/ input.harm = Tone440(-a)

\* C10 as stated: for a 440 Hz tone the emitted bass stem is near zero and
\* the vocals, guitar and piano stems are not.
C10_BassNearZero ==
    (ToneInput /\ sep_pc = "returned") =>
      /\ NearZero(StemAudio("bass"))
      /\ \A nm \in {"vocals", "guitar", "piano"} : ~NearZero(StemAudio(nm))

\* C10: for a 440 Hz tone the bass mask is 0 in the bin of the tone, and the
\* vocals, guitar and piano stems are emitted with peak 0.95; the emitted bass
\* stem is all-zero only if the harmonic magnitude is 0 in every bin of the
\* bass band, and otherwise is scaled to peak 0.95 like every other stem.
C10_ToneStems ==
    (ToneInput /\ sep_pc = "returned") =>
      /\ \A k \in Bins : input.harm[k] # 0 => MaskOf("bass", BinK[k]) = 0
      /\ \A nm \in {"vocals", "guitar", "piano"} : TruePeakIs(StemAudio(nm), 95)
      /\ IF \E k \in Bins : MaskOf("bass", BinK[k]) # 0 /\ S_harmonic[k] # 0
         THEN TruePeakIs(StemAudio("bass"), 95)
         ELSE IsSilent(StemAudio("bass"))

\* the bass stem of a 440 Hz tone was emitted with peak 0.95
C10_Witness ==
    /\ ToneInput
    /\ sep_pc = "returned"
    /\ TruePeakIs(StemAudio("bass"), 95)

\* The mask table: the primary band of the stems whose mask starts at zero.
ZeroedStems ==
    { "vocals", "bass", "guitar", "piano", "flute", "strings", "background" }

PrimaryBand ==
    [vocals  |-> << 80, 4000 >>, bass  |-> << 20, 250 >>,
     guitar  |-> << 80, 2000 >>, piano |-> << 27, 4200 >>,
     flute   |-> << 250, 4200 >>, strings |-> << 40, 3500 >>]

InPrimaryBand(name, k) ==
    IF name = "background"
    THEN FreqAbove(k, 3000)
    ELSE /\ FreqAbove(k, PrimaryBand[name][1])
         /\ FreqBelow(k, PrimaryBand[name][2])

MaskBuilt == mask_gain # -1

Emphasis ==
    [vocals  |-> [primary |-> 12, extra |-> 13, band |-> << 150, 3000 >>],
     bass    |-> [primary |-> 18, extra |-> 12, band |-> << 20, 100 >>],
     guitar  |-> [primary |-> 14, extra |-> 12, band |-> << 200, 1000 >>],
     piano   |-> [primary |-> 8,  extra |-> 13, band |-> << 200, 2000 >>],
     flute   |-> [primary |-> 9,  extra |-> 14, band |-> << 1000, 3500 >>],
     strings |-> [primary |-> 9,  extra |-> 13, band |-> << 150, 1500 >>],
     background |-> [primary |-> 12, extra |-> 11, band |-> << 5000 >>]]

InEmphasis(name, k) ==
    IF name = "background"
    THEN FreqAbove(k, Emphasis[name].band[1])
    ELSE /\ FreqAbove(k, Emphasis[name].band[1])
         /\ FreqBelow(k, Emphasis[name].band[2])

\* the index of the bin nearest to hz
BinAt(hz) == (hz * n_fft + (SR \div 2)) \div SR

\* C12: mask rules compose multiplicatively.  For every stem with an
\* emphasis sub-band, a bin inside the sub-band has gain primary x extra and
\* a bin of the primary band outside the sub-band has gain primary alone;
\* the vocals gain at 200 Hz (1.2 x 1.3 = 1.56) is strictly greater than
\* the vocals gain at 3500 Hz (1.2).
C12_Multiplicative ==
    MaskBuilt =>
      /\ (mask_name \in ZeroedStems /\ InPrimaryBand(mask_name, mask_k)) =>
            mask_gain =
              (IF InEmphasis(mask_name, mask_k)
               THEN Emphasis[mask_name].primary * Emphasis[mask_name].extra
               ELSE Emphasis[mask_name].primary * 10)
      /\ (mask_name = "vocals" /\ mask_k = BinAt(200)) =>
            /\ mask_gain = 156
            /\ mask_gain > MaskOf("vocals", BinAt(3500))
      /\ (mask_name = "vocals" /\ mask_k = BinAt(3500)) => mask_gain = 120

\* the vocals mask was built and read at 200 Hz, inside the emphasis sub-band
C12_Witness ==
    /\ MaskBuilt
    /\ mask_name = "vocals"
    /\ mask_k = BinAt(200)
    /\ InEmphasis("vocals", mask_k)
    /\ mask_gain = 12 * 13

\* The stem `name` of recording inp, as one call running alone computes it:
\* load, HPSS, analysis of the stem's component, mask, synthesis.
AloneStem(inp, name) ==
    LET comp == IF name \in PercussiveStems THEN hpss(inp)[2] ELSE hpss(inp)[1]
        D    == stft(comp)
    IN  Reconstruct(name, magphase(D), angle(D))

CallAccepts(inp) == ~inp.corrupt /\ ~TooShort(inp.n, SR)

\* C13: two concurrent calls of separate share no mutable state.  Under
\* every interleaving each call writes stem files only into its own
\* temporary directory, no stem path is written by both calls, and a call
\* that returns leaves exactly the 9 stems it would produce running alone.
C13_Isolated ==
    /\ \A w \in written : w.dir = call[w.by].temp_dir
    /\ \A w1, w2 \in written :
          (w1.dir = w2.dir /\ w1.name = w2.name) => w1.by = w2.by
    /\ \A c \in DOMAIN call :
          call[c].pc = "returned" =>
            /\ CallAccepts(call[c].input)
            /\ Names(call[c].output_files) = NineNames
            /\ \A i \in 1..Len(NineNames) :
                  \E f \in files :
                    /\ f.dir = call[c].temp_dir
                    /\ f.name = NineNames[i]
                    /\ f.sr = SR
                    /\ f.audio = AloneStem(call[c].input, NineNames[i])

\* two calls on different recordings both returned, each with its 9 stem
\* files written under its own directory
C13_Witness ==
    /\ call[1].pc = "returned"
    /\ call[2].pc = "returned"
    /\ call[1].input # call[2].input
    /\ call[1].temp_dir > call[2].temp_dir
    /\ Cardinality(written) = 2 * Len(NineNames)

\* The waveform in the file a call wrote for a stem.
CallStem(c, name) ==
    (CHOOSE f \in files : f.dir = call[c].temp_dir /\ f.name = name).audio

SourceComponent ==
    [vocals |-> "harmonic", drums |-> "percussive", bass |-> "harmonic",
     guitar |-> "harmonic", piano |-> "harmonic", flute |-> "harmonic",
     strings |-> "harmonic", background |-> "harmonic",
     instrumental |-> "percussive"]

ComponentMagnitude(comp) ==
    IF comp = "percussive" THEN S_percussive ELSE S_harmonic

ComponentPhase(comp) ==
    IF comp = "percussive" THEN S_percussive_phase ELSE S_harmonic_phase

\* C15: every stem that was written is the synthesis of the magnitude and
\* the phase of one and the same HPSS component, the one the mask table
\* binds it to: percussive for drums and instrumental, harmonic for the
\* other 7 stems.
C15_SameComponent ==
    \A i \in 1..Len(NineNames) :
      (NineNames[i] \in sep_done /\ HasStemFile(NineNames[i])) =>
        LET comp == SourceComponent[NineNames[i]]
        IN  StemAudio(NineNames[i]) =
              Reconstruct(NineNames[i], ComponentMagnitude(comp),
                          ComponentPhase(comp))

\* a call returned for a recording whose two components differ in magnitude
\* and in phase, so that drums built on the harmonic phase would differ
C15_Witness ==
    /\ sep_pc = "returned"
    /\ S_harmonic # S_percussive
    /\ S_harmonic_phase # S_percussive_phase
    /\ TruePeakIs(StemAudio("drums"), 95)
    /\ StemAudio("drums") #
         Reconstruct("drums", S_percussive, S_harmonic_phase)

\* The request's update to 'processing' was accepted / was issued.
SetProcessing ==
    \E i \in 1..Len(db_log) : db_log[i] = [status |-> "processing", ok |-> TRUE]

TriedProcessing ==
    \E i \in 1..Len(db_log) : db_log[i].status = "processing"

Statuses == { "created", "processing", "completed", "failed" }

\* What C16 and its amendment share: the status of a project is one of the
\* four; it is created from the making of the project until an upload
\* request updates it; separation starts only after the request has set
\* processing, and the status is processing while it runs.
StatusCycle ==
    /\ project.exists => project.status \in Statuses
    /\ (project.exists /\ db_log = << >>) => project.status = "created"
    /\ sep_pc # "idle" => SetProcessing
    /\ (us_pc = "processing") => project.status = "processing"

\* C16 as stated: the status is one of created, processing, completed,
\* failed; created when the project is made, processing before separation
\* starts, and completed or failed is written only by a request that
\* previously set processing.
C16_FinalOnlyAfterProcessing ==
    /\ StatusCycle
    /\ (project.exists /\ project.status \in {"completed", "failed"}) =>
          SetProcessing

\* C16: the status is one of created, processing, completed, failed;
\* created when the project is made, processing before separation starts;
\* completed is written only by a request that previously set processing,
\* failed only by a request that previously set processing or whose update
\* to processing was rejected by the datastore.
C16_FinalOnlyAfterAttempt ==
    /\ StatusCycle
    /\ (project.exists /\ project.status = "completed") => SetProcessing
    /\ (project.exists /\ project.status = "failed") => TriedProcessing

\* a request whose update to processing was rejected marked the project
\* failed
C16_Witness ==
    /\ us_pc = "done"
    /\ project.exists
    /\ project.status = "failed"
    /\ TriedProcessing
    /\ ~SetProcessing

\* The datastore accepted every status update the request issued.
NoRejection == \A i \in 1..Len(db_log) : db_log[i].ok

\* C17: every upload_song request that sets the status to processing ends,
\* and, given the datastore accepts its status updates, it has then written
\* a final status: completed exactly when process_and_upload returned
\* without raising (however many of the 9 stem uploads failed), failed
\* exactly when separation raised; the status is never left at processing.
C17_FinalStatus ==
    /\ [](  (us_pc = "done" /\ SetProcessing /\ NoRejection) =>
              /\ project.status \in {"completed", "failed"}
              /\ project.status = "completed" <=> pu_pc = "returned"
              /\ project.status = "failed" <=> sep_pc = "raised"
              /\ pu_pc = "raised" <=> sep_pc = "raised"  )
    /\ (us_pc = "processing") ~> (us_pc = "done")

\* a request that set processing ended completed although all 9 stem
\* uploads had failed
C17_Witness ==
    /\ us_pc = "done"
    /\ SetProcessing
    /\ NoRejection
    /\ pu_pc = "returned"
    /\ Len(results) = Len(NineNames)
    /\ uploaded = {}
    /\ project.status = "completed"

\* C18: within one process_and_upload run no stem upload starts before
\* separate has produced all 9 stems; the temporary stem directory is
\* removed only after the upload attempt of every stem has finished; so
\* every upload attempt finds its stem file in place and none reads it
\* after cleanup.
C18_Ordered ==
    /\ attempted # {} =>
          /\ sep_pc = "returned"
          /\ \A i \in 1..Len(NineNames) : NineNames[i] \in sep_done
    /\ (pu_temp_dir # 0 /\ pu_temp_dir \notin dirs) =>
          /\ Len(results) = Len(NineNames)
          /\ attempted = StemSet
    /\ (pu_pc = "uploading" /\ Len(results) < Len(stems)) =>
          Exists(stems[Len(results) + 1].path)
    /\ \A i \in 1..Len(results) :
          "error" \in DOMAIN results[i] => results[i].error # "File not found"

\* a run returned: every stem was attempted, some were uploaded, and the
\* stem directory is gone
C18_Witness ==
    /\ pu_pc = "returned"
    /\ pu_temp_dir # 0
    /\ pu_temp_dir \notin dirs
    /\ attempted = StemSet
    /\ uploaded # {}

\* The request was answered 403 or 400 by the checks of upload_song.
Rejected == us_pc = "done" /\ response.code \in {403, 400}

\* The four grounds of rejection, from the request itself.
RejectionGround ==
    \/ ~request.owned
    \/ ~request.has_file
    \/ request.filename = << "" >>
    \/ Lower(request.filename[Len(request.filename)])
          \notin {"mp3", "wav", "flac", "ogg", "m4a"}

\* C19: an upload_song request rejected before processing (project not
\* found for the user, no file part, empty filename, extension outside
\* mp3/wav/flac/ogg/m4a) leaves the project as create_project stored it
\* (or absent), creates no temporary input file, issues no status update
\* and runs no separation and no upload.
C19_RejectedNoEffect ==
    Rejected =>
      /\ RejectionGround
      /\ project = (IF request.owned THEN project_data ELSE NoProject)
      /\ ~temp_audio_path
      /\ db_log = << >>
      /\ sep_pc = "idle" /\ sep_done = {} /\ temp_dir = 0
      /\ pu_pc = "idle" /\ attempted = {} /\ uploaded = {}
      /\ dirs = {} /\ files = {}

\* a request for an existing project was rejected for its extension
C19_Witness ==
    /\ Rejected
    /\ project.exists
    /\ project.status = "created"
    /\ request.has_file
    /\ request.filename = << "notes", "txt" >>
    /\ response.error = "Invalid file type"

====
